---- MODULE Spec2Model ----
(***************************************************************************)
(* Model of Scripts/fetch_quran_data.py: the diacritic normalizer          *)
(* (fix_diacritic_order), the markup stripper (clean_html_tags), the verse *)
(* fetcher (fetch_surah_verses), the corpus assembler                      *)
(* (generate_juz_amma_data) and the entry point with save_json.            *)
(*                                                                         *)
(* Strings are sequences.  Arabic text is a sequence of code points        *)
(* (integers); translation text is a sequence of tokens, each token a      *)
(* run of characters that the two regular expressions treat atomically.    *)
(***************************************************************************)
EXTENDS Integers, Sequences, FiniteSets, TLC

VARIABLES
    \* fix_diacritic_order, statement by statement
    text,        \* the argument
    chars,       \* list(text), mutated in place
    i,           \* the cursor (0-based, as in the source)
    fpc,         \* "idle" | "loop" | "done"
    swaps,       \* history: the 0-based indices at which a swap was made
    steps,       \* history: the cursor values the loop has visited, in order
    \* clean_html_tags, statement by statement
    html_in,     \* the argument
    html,        \* the local variable text
    cpc,         \* "idle" | "footnotes" | "tags" | "strip" | "done"
    \* __main__ / generate_juz_amma_data / fetch_surah_verses / save_json
    pc,          \* position of the single thread of control
    killed_at,   \* where the process was when it was terminated from outside
    it,          \* next value of the iterator range(78, 115)
    surah_num,   \* loop variable of generate_juz_amma_data
    juzAmma,     \* juz_amma_data["juzAmma"]
    total_verses,
    arabic_data, english_data, indonesian_data,  \* decoded response bodies
    result,      \* what fetch_surah_verses returned / how it ended
    exc,         \* the exception in flight inside fetch_surah_verses
    last_call,   \* history: the network call issued last, and whether it succeeded
    failed,      \* history: surahs whose fetch ended in an except clause
    file,        \* the output file: its status and the document it holds
    file_opens,  \* history: number of times the output file was opened for writing
    budget       \* number of anomalous responses still allowed in the run

fixvars   == <<text, chars, i, fpc, swaps, steps>>
cleanvars == <<html_in, html, cpc>>
runvars   == <<pc, killed_at, it, surah_num, juzAmma, total_verses, arabic_data,
               english_data, indonesian_data, result, exc, last_call, failed, file,
               file_opens, budget>>
vars      == <<text, chars, i, fpc, swaps, steps, html_in, html, cpc,
               pc, killed_at, it, surah_num, juzAmma, total_verses, arabic_data,
               english_data, indonesian_data, result, exc, last_call, failed, file,
               file_opens, budget>>

(***************************************************************************)
(* Bounds of the model                                                     *)
(***************************************************************************)
MaxLen == 4        \* longest Arabic text given to fix_diacritic_order
MaxPieces == 4     \* translation texts are built from at most this many pieces
MaxVerses == 2     \* longest verse / translation list in a response
MaxAnomalies == 1  \* anomalous responses (failures, odd bodies) per full run

RECURSIVE SeqsUpTo(_, _)
SeqsUpTo(S, n) ==
    IF n = 0 THEN {<< >>}
    ELSE LET shorter == SeqsUpTo(S, n - 1)
         IN  shorter \cup {Append(s, x) : s \in shorter, x \in S}

(***************************************************************************)
(* fix_diacritic_order                                                     *)
(***************************************************************************)
SHADDA == 1617   \* 0x0651
KASRA == 1616    \* 0x0650

\* code points used in inputs: the two marks, FATHA (0x064E) and BEH (0x0628)
CodePoints == {SHADDA, KASRA, 1614, 1576}

\* chars[i] of the source: i is 0-based
At(s, k) == s[k + 1]

\* line 102: ord(chars[i]) == 0x0651 and ord(chars[i+1]) == 0x0650
IsPairEitherOrder(s, k) ==
    {At(s, k), At(s, k + 1)} = {SHADDA, KASRA}
IsPair(s, k) == At(s, k) = SHADDA /\ At(s, k + 1) = KASRA

\* line 103: chars[i], chars[i+1] = chars[i+1], chars[i]
SwapAt(s, k) == [s EXCEPT ![k + 1] = s[k + 2], ![k + 2] = s[k + 1]]

\* line 104 (i += 2) and line 106 (i += 1)
AfterSwapRescan(k) == k + 1
AfterSwap(k) == k + 2
AfterNoSwap(k) == k + 1

\* lines 98-107 as a function: the loop from cursor k on
RECURSIVE FixFrom(_, _)
FixFrom(s, k) ==
    IF k < Len(s) - 1
    THEN IF IsPair(s, k) THEN FixFrom(SwapAt(s, k), AfterSwap(k))
                         ELSE FixFrom(s, AfterNoSwap(k))
    ELSE s

fix_diacritic_order(t) == FixFrom(t, 0)

\* line 98-99
FixEnter ==
    /\ fpc = "idle"
    /\ chars' = text
    /\ i' = 0
    /\ fpc' = "loop"
    /\ steps' = << >>
    /\ UNCHANGED <<text, swaps, cleanvars, runvars>>

\* lines 100-104: loop test true, pair found
FixSwap ==
    /\ fpc = "loop"
    /\ i < Len(chars) - 1
    /\ IsPair(chars, i)
    /\ chars' = SwapAt(chars, i)
    /\ i' = AfterSwap(i)
    /\ swaps' = swaps \cup {i}
    /\ steps' = Append(steps, i)
    /\ UNCHANGED <<text, fpc, cleanvars, runvars>>

\* lines 100-102, 105-106: loop test true, no pair
FixAdvance ==
    /\ fpc = "loop"
    /\ i < Len(chars) - 1
    /\ ~IsPair(chars, i)
    /\ i' = AfterNoSwap(i)
    /\ steps' = Append(steps, i)
    /\ UNCHANGED <<text, chars, fpc, swaps, cleanvars, runvars>>

\* lines 100, 107: loop test false, return ''.join(chars)
FixReturn ==
    /\ fpc = "loop"
    /\ ~(i < Len(chars) - 1)
    /\ fpc' = "done"
    /\ UNCHANGED <<text, chars, i, swaps, steps, cleanvars, runvars>>

InitFixVars ==
    /\ text \in SeqsUpTo(CodePoints, MaxLen)
    /\ chars = << >>
    /\ i = 0
    /\ fpc = "idle"
    /\ swaps = {}
    /\ steps = << >>

IdleFixVars ==
    /\ text = << >>
    /\ chars = << >>
    /\ i = 0
    /\ fpc = "idle"
    /\ swaps = {}
    /\ steps = << >>

(***************************************************************************)
(* clean_html_tags                                                         *)
(*                                                                         *)
(* A translation text is a sequence of tokens.  "<", ">", "\n" and " " are *)
(* single characters; "sup foot_note=" and "/sup" are the literal runs the *)
(* first pattern spells out after "<"; any other token is a run of         *)
(* characters without "<", ">" or white space.                             *)
(***************************************************************************)
LT == "<"
GT == ">"
NL == "\n"
SP == " "
SUPFN == "sup foot_note="
ENDSUP == "/sup"

\* str.strip() with no argument removes white space
IsSpace(tok) == tok \in {SP, NL}

\* "." of the pattern on line 81, compiled without re.DOTALL
DotMatches(tok) == tok # NL

\* smallest index >= from holding ">", or 0
FirstGT(s, from) ==
    LET hits == {k \in from..Len(s) : s[k] = GT}
    IN  IF hits = {} THEN 0 ELSE CHOOSE k \in hits : \A m \in hits : k <= m

\* "</sup>" starts at index r
IsCloseAt(s, r) == r + 2 <= Len(s) /\ s[r] = LT /\ s[r + 1] = ENDSUP /\ s[r + 2] = GT

\* smallest index >= from where "</sup>" starts, or 0
FirstClose(s, from) ==
    LET hits == {k \in from..Len(s) : IsCloseAt(s, k)}
    IN  IF hits = {} THEN 0 ELSE CHOOSE k \in hits : \A m \in hits : k <= m

\* line 81: the index where a match of <sup foot_note=[^>]*>.*?</sup> starting
\* at p ends, or 0 when there is none.  [^>]* is followed by ">", so it ends at
\* the first ">"; .*? is lazy, so it ends at the first "</sup>", and the match
\* fails when a character "." does not match lies before it.
FootnoteMatchEnd(s, p) ==
    IF p + 1 <= Len(s) /\ s[p] = LT /\ s[p + 1] = SUPFN
    THEN LET q == FirstGT(s, p + 2)
         IN  IF q = 0 THEN 0
             ELSE LET r == FirstClose(s, q + 1)
                  IN  IF r = 0 THEN 0
                      ELSE IF \A k \in (q + 1)..(r - 1) : DotMatches(s[k])
                           THEN r + 2 ELSE 0
    ELSE 0

\* line 83: the index where a match of <[^>]+> starting at p ends, or 0
TagMatchEndEmptyOk(s, p) ==
    IF s[p] = LT
    THEN LET q == FirstGT(s, p + 1) IN IF q >= p + 1 THEN q ELSE 0
    ELSE 0
TagMatchEnd(s, p) ==
    IF s[p] = LT
    THEN LET q == FirstGT(s, p + 1) IN IF q >= p + 2 THEN q ELSE 0
    ELSE 0

\* re.sub(pattern, '', s): leftmost non-overlapping matches, scanning from p
RECURSIVE SubFootnotes(_, _)
SubFootnotes(s, p) ==
    IF p > Len(s) THEN << >>
    ELSE LET e == FootnoteMatchEnd(s, p)
         IN  IF e > 0 THEN SubFootnotes(s, e + 1)
             ELSE <<s[p]>> \o SubFootnotes(s, p + 1)

RECURSIVE SubTags(_, _)
SubTags(s, p) ==
    IF p > Len(s) THEN << >>
    ELSE LET e == TagMatchEnd(s, p)
         IN  IF e > 0 THEN SubTags(s, e + 1)
             ELSE <<s[p]>> \o SubTags(s, p + 1)

\* line 81
RemoveFootnotes(s) == SubFootnotes(s, 1)
\* line 83
RemoveTags(s) == SubTags(s, 1)

\* line 84: text.strip()
RECURSIVE LStrip(_)
LStrip(s) == IF s # << >> /\ IsSpace(Head(s)) THEN LStrip(Tail(s)) ELSE s
RECURSIVE RStrip(_)
RStrip(s) ==
    IF s # << >> /\ IsSpace(s[Len(s)]) THEN RStrip(SubSeq(s, 1, Len(s) - 1)) ELSE s
Strip(s) == RStrip(LStrip(s))

\* lines 70-84 as a function
clean_html_tags(t) == Strip(RemoveTags(RemoveFootnotes(t)))

\* the spec's example: <sup foot_note="x">note</sup>hello<b>world</b>
ExampleMarkup ==
    <<LT, SUPFN, "\"x\"", GT, "note", LT, ENDSUP, GT,
      "hello", LT, "b", GT, "world", LT, "/b", GT>>

\* pieces from which the inputs of clean_html_tags are put together
FnOpen == <<LT, SUPFN, "1", GT>>
FnClose == <<LT, ENDSUP, GT>>
Pieces == {FnOpen, FnClose, <<LT, "b", GT>>, <<"note">>, <<NL>>, <<SP>>, <<LT>>, <<GT>>}

RECURSIVE Flatten(_)
Flatten(ss) == IF ss = << >> THEN << >> ELSE Head(ss) \o Flatten(Tail(ss))

MarkupInputs == {Flatten(ps) : ps \in SeqsUpTo(Pieces, MaxPieces)} \cup {ExampleMarkup}

\* entry: text is the argument
CleanEnter ==
    /\ cpc = "idle"
    /\ html' = html_in
    /\ cpc' = "footnotes"
    /\ UNCHANGED <<html_in, fixvars, runvars>>

\* line 81
CleanFootnotes ==
    /\ cpc = "footnotes"
    /\ html' = RemoveFootnotes(html)
    /\ cpc' = "tags"
    /\ UNCHANGED <<html_in, fixvars, runvars>>

\* line 83
CleanTags ==
    /\ cpc = "tags"
    /\ html' = RemoveTags(html)
    /\ cpc' = "strip"
    /\ UNCHANGED <<html_in, fixvars, runvars>>

\* line 84
CleanStrip ==
    /\ cpc = "strip"
    /\ html' = Strip(html)
    /\ cpc' = "done"
    /\ UNCHANGED <<html_in, fixvars, runvars>>

InitCleanVars ==
    /\ html_in \in MarkupInputs
    /\ html = << >>
    /\ cpc = "idle"

IdleCleanVars ==
    /\ html_in = << >>
    /\ html = << >>
    /\ cpc = "idle"

(***************************************************************************)
(* Static configuration, lines 23-67                                       *)
(***************************************************************************)
SURAH_METADATA ==
    78 :> [name |-> <<1575, 1604, 1606, 1576, 1573>>,
           transliteration |-> "An-Naba'", translation |-> "The Tidings",
           ayahs |-> 40, revelation |-> "Makkah"] @@
    79 :> [name |-> <<1575, 1604, 1606, 1575, 1586, 1593, 1575, 1578>>,
           transliteration |-> "An-Nazi'at", translation |-> "Those Who Pull Out",
           ayahs |-> 46, revelation |-> "Makkah"] @@
    80 :> [name |-> <<1593, 1576, 1587>>,
           transliteration |-> "'Abasa", translation |-> "He Frowned",
           ayahs |-> 42, revelation |-> "Makkah"] @@
    81 :> [name |-> <<1575, 1604, 1578, 1603, 1608, 1610, 1585>>,
           transliteration |-> "At-Takwir", translation |-> "The Overthrowing",
           ayahs |-> 29, revelation |-> "Makkah"] @@
    82 :> [name |-> <<1575, 1604, 1575, 1606, 1601, 1591, 1575, 1585>>,
           transliteration |-> "Al-Infitar", translation |-> "The Cleaving",
           ayahs |-> 19, revelation |-> "Makkah"] @@
    83 :> [name |-> <<1575, 1604, 1605, 1591, 1601, 1601, 1610, 1606>>,
           transliteration |-> "Al-Mutaffifin", translation |-> "The Defrauding",
           ayahs |-> 36, revelation |-> "Makkah"] @@
    84 :> [name |-> <<1575, 1604, 1575, 1606, 1588, 1602, 1575, 1602>>,
           transliteration |-> "Al-Inshiqaq", translation |-> "The Splitting Asunder",
           ayahs |-> 25, revelation |-> "Makkah"] @@
    85 :> [name |-> <<1575, 1604, 1576, 1585, 1608, 1580>>,
           transliteration |-> "Al-Buruj", translation |-> "The Stars",
           ayahs |-> 22, revelation |-> "Makkah"] @@
    86 :> [name |-> <<1575, 1604, 1591, 1575, 1585, 1602>>,
           transliteration |-> "At-Tariq", translation |-> "The Nightcomer",
           ayahs |-> 17, revelation |-> "Makkah"] @@
    87 :> [name |-> <<1575, 1604, 1571, 1593, 1604, 1609>>,
           transliteration |-> "Al-A'la", translation |-> "The Most High",
           ayahs |-> 19, revelation |-> "Makkah"] @@
    88 :> [name |-> <<1575, 1604, 1594, 1575, 1588, 1610, 1577>>,
           transliteration |-> "Al-Ghashiyah", translation |-> "The Overwhelming",
           ayahs |-> 26, revelation |-> "Makkah"] @@
    89 :> [name |-> <<1575, 1604, 1601, 1580, 1585>>,
           transliteration |-> "Al-Fajr", translation |-> "The Dawn",
           ayahs |-> 30, revelation |-> "Makkah"] @@
    90 :> [name |-> <<1575, 1604, 1576, 1604, 1583>>,
           transliteration |-> "Al-Balad", translation |-> "The City",
           ayahs |-> 20, revelation |-> "Makkah"] @@
    91 :> [name |-> <<1575, 1604, 1588, 1605, 1587>>,
           transliteration |-> "Ash-Shams", translation |-> "The Sun",
           ayahs |-> 15, revelation |-> "Makkah"] @@
    92 :> [name |-> <<1575, 1604, 1604, 1610, 1604>>,
           transliteration |-> "Al-Layl", translation |-> "The Night",
           ayahs |-> 21, revelation |-> "Makkah"] @@
    93 :> [name |-> <<1575, 1604, 1590, 1581, 1609>>,
           transliteration |-> "Ad-Duha", translation |-> "The Forenoon",
           ayahs |-> 11, revelation |-> "Makkah"] @@
    94 :> [name |-> <<1575, 1604, 1588, 1585, 1581>>,
           transliteration |-> "Ash-Sharh", translation |-> "The Opening Forth",
           ayahs |-> 8, revelation |-> "Makkah"] @@
    95 :> [name |-> <<1575, 1604, 1578, 1610, 1606>>,
           transliteration |-> "At-Tin", translation |-> "The Fig",
           ayahs |-> 8, revelation |-> "Makkah"] @@
    96 :> [name |-> <<1575, 1604, 1593, 1604, 1602>>,
           transliteration |-> "Al-'Alaq", translation |-> "The Clot",
           ayahs |-> 19, revelation |-> "Makkah"] @@
    97 :> [name |-> <<1575, 1604, 1602, 1583, 1585>>,
           transliteration |-> "Al-Qadar", translation |-> "The Night of Decree",
           ayahs |-> 5, revelation |-> "Makkah"] @@
    98 :> [name |-> <<1575, 1604, 1576, 1610, 1606, 1577>>,
           transliteration |-> "Al-Bayyinah", translation |-> "The Clear Evidence",
           ayahs |-> 8, revelation |-> "Madinah"] @@
    99 :> [name |-> <<1575, 1604, 1586, 1604, 1586, 1604, 1577>>,
           transliteration |-> "Az-Zalzalah", translation |-> "The Earthquake",
           ayahs |-> 8, revelation |-> "Madinah"] @@
    100 :> [name |-> <<1575, 1604, 1593, 1575, 1583, 1610, 1575, 1578>>,
           transliteration |-> "Al-'Adiyat", translation |-> "The Courser",
           ayahs |-> 11, revelation |-> "Makkah"] @@
    101 :> [name |-> <<1575, 1604, 1602, 1575, 1585, 1593, 1577>>,
           transliteration |-> "Al-Qari'ah", translation |-> "The Striking Hour",
           ayahs |-> 11, revelation |-> "Makkah"] @@
    102 :> [name |-> <<1575, 1604, 1578, 1603, 1575, 1579, 1585>>,
           transliteration |-> "At-Takathur", translation |-> "The Rivalry in World Increase",
           ayahs |-> 8, revelation |-> "Makkah"] @@
    103 :> [name |-> <<1575, 1604, 1593, 1589, 1585>>,
           transliteration |-> "Al-'Asr", translation |-> "The Time",
           ayahs |-> 3, revelation |-> "Makkah"] @@
    104 :> [name |-> <<1575, 1604, 1607, 1605, 1586, 1577>>,
           transliteration |-> "Al-Humazah", translation |-> "The Slanderer",
           ayahs |-> 9, revelation |-> "Makkah"] @@
    105 :> [name |-> <<1575, 1604, 1601, 1610, 1604>>,
           transliteration |-> "Al-Fil", translation |-> "The Elephant",
           ayahs |-> 5, revelation |-> "Makkah"] @@
    106 :> [name |-> <<1602, 1585, 1610, 1588>>,
           transliteration |-> "Quraysh", translation |-> "Quraysh",
           ayahs |-> 4, revelation |-> "Makkah"] @@
    107 :> [name |-> <<1575, 1604, 1605, 1575, 1593, 1608, 1606>>,
           transliteration |-> "Al-Ma'un", translation |-> "The Small Kindnesses",
           ayahs |-> 7, revelation |-> "Makkah"] @@
    108 :> [name |-> <<1575, 1604, 1603, 1608, 1579, 1585>>,
           transliteration |-> "Al-Kawthar", translation |-> "The Abundance",
           ayahs |-> 3, revelation |-> "Makkah"] @@
    109 :> [name |-> <<1575, 1604, 1603, 1575, 1601, 1585, 1608, 1606>>,
           transliteration |-> "Al-Kafirun", translation |-> "The Disbelievers",
           ayahs |-> 6, revelation |-> "Makkah"] @@
    110 :> [name |-> <<1575, 1604, 1606, 1589, 1585>>,
           transliteration |-> "An-Nasr", translation |-> "The Help",
           ayahs |-> 3, revelation |-> "Madinah"] @@
    111 :> [name |-> <<1575, 1604, 1605, 1587, 1583>>,
           transliteration |-> "Al-Masad", translation |-> "The Palm Fiber",
           ayahs |-> 5, revelation |-> "Makkah"] @@
    112 :> [name |-> <<1575, 1604, 1573, 1582, 1604, 1575, 1589>>,
           transliteration |-> "Al-Ikhlas", translation |-> "The Sincerity",
           ayahs |-> 4, revelation |-> "Makkah"] @@
    113 :> [name |-> <<1575, 1604, 1601, 1604, 1602>>,
           transliteration |-> "Al-Falaq", translation |-> "The Daybreak",
           ayahs |-> 5, revelation |-> "Makkah"] @@
    114 :> [name |-> <<1575, 1604, 1606, 1575, 1587>>,
           transliteration |-> "An-Nas", translation |-> "Mankind",
           ayahs |-> 6, revelation |-> "Makkah"]

\* range(78, 115) on line 207
RangeStart == 78
RangeStop == 115

(***************************************************************************)
(* The data source.  A response is how one requests.get(...) ends:         *)
(*   "transport"  requests.get raises (connection error, timeout)          *)
(*   "status"     raise_for_status() raises HTTPError                      *)
(*   "json"       .json() raises: the body is not JSON                     *)
(*   "ok"         the three statements pass and yield the decoded body     *)
(* A decoded body is a dict (dict = TRUE) holding a list, or some other    *)
(* JSON value (dict = FALSE), on which .get raises AttributeError.         *)
(***************************************************************************)
Failures == {"transport", "status", "json"}

RaisedBy(outcome) ==
    CASE outcome = "transport" -> "ConnectionError"
      [] outcome = "status"    -> "HTTPError"
      [] outcome = "json"      -> "JSONDecodeError"

\* except requests.RequestException (line 183); the error of .json() is caught by
\* this clause or by the next one, depending on the version of requests
IsRequestException(e) == e \in {"ConnectionError", "HTTPError"}
\* except Exception (line 186)
IsException(e) ==
    e \in {"ConnectionError", "HTTPError", "JSONDecodeError", "AttributeError",
           "ValueError", "TypeError"}
\* the two except clauses of fetch_surah_verses
OnlyRequestExceptionHandled(e) == IsRequestException(e)
Handled(e) == IsRequestException(e) \/ IsException(e)

Digit == [c \in {"0", "1", "2", "3", "4", "5", "6", "7", "8", "9"} |->
            CASE c = "0" -> 0 [] c = "1" -> 1 [] c = "2" -> 2 [] c = "3" -> 3
              [] c = "4" -> 4 [] c = "5" -> 5 [] c = "6" -> 6 [] c = "7" -> 7
              [] c = "8" -> 8 [] c = "9" -> 9]

DigitChar == <<"0", "1", "2", "3", "4", "5", "6", "7", "8", "9">>

\* str(n) for n >= 0
RECURSIVE Decimal(_)
Decimal(n) == IF n < 10 THEN <<DigitChar[n + 1]>>
              ELSE Decimal(n \div 10) \o <<DigitChar[(n % 10) + 1]>>

\* the key "<surah>:<verse>" as a sequence of characters
Key(s, v) == Decimal(s) \o <<":">> \o Decimal(v)

\* ":" in verse_key
HasColon(key) == \E j \in 1..Len(key) : key[j] = ":"

\* verse_key.split(":")[-1]
LastComponent(key) ==
    LET cols == {j \in 1..Len(key) : key[j] = ":"}
        last == CHOOSE j \in cols : \A m \in cols : m <= j
    IN  SubSeq(key, last + 1, Len(key))

\* int(s) succeeds; the keys drawn hold no sign, white space or underscore,
\* so s is accepted exactly when it is a non-empty run of digits
IsInt(s) == s # << >> /\ \A j \in 1..Len(s) : s[j] \in DOMAIN Digit

RECURSIVE IntOf(_)
IntOf(s) == IF s = << >> THEN 0
            ELSE 10 * IntOf(SubSeq(s, 1, Len(s) - 1)) + Digit[s[Len(s)]]

\* arabic_verse.get("verse_key", "")
VerseKeyOf(item) == IF item.has_key THEN item.verse_key ELSE << >>

\* line 157 raises ValueError
VerseNumberRaises(key) == HasColon(key) /\ ~IsInt(LastComponent(key))

\* line 157: idx is the 0-based enumerate index
VerseNumber(key, idx) ==
    IF HasColon(key) THEN IntOf(LastComponent(key)) ELSE idx + 1

\* lines 160-161: xs[i].get("text", "") if i < len(xs) else ""
TextAt(xs, idx) == IF idx < Len(xs) THEN xs[idx + 1].text ELSE << >>

\* lines 154-178: the verse built from the item at 0-based index idx
VerseOfByNumber(av, en, id, idx) ==
    LET key    == VerseKeyOf(av[idx + 1])
        number == VerseNumber(key, idx)
    IN  [number                |-> number,
         textArabic            |-> fix_diacritic_order(av[idx + 1].text_uthmani),
         textTransliteration   |-> << >>,
         translationEnglish    |-> clean_html_tags(TextAt(en, number - 1)),
         translationIndonesian |-> clean_html_tags(TextAt(id, number - 1))]
VerseOf(av, en, id, idx) ==
    LET key    == VerseKeyOf(av[idx + 1])
        number == VerseNumber(key, idx)
    IN  [number                |-> number,
         textArabic            |-> fix_diacritic_order(av[idx + 1].text_uthmani),
         textTransliteration   |-> << >>,
         translationEnglish    |-> clean_html_tags(TextAt(en, idx)),
         translationIndonesian |-> clean_html_tags(TextAt(id, idx))]

\* the exception lines 149-178 raise on these bodies, or "none"
CombineExc(a, e, d) ==
    IF ~a.dict \/ ~e.dict \/ ~d.dict THEN "AttributeError"
    ELSE IF \E k \in 1..Len(a.items) : VerseNumberRaises(VerseKeyOf(a.items[k]))
         THEN "ValueError"
         ELSE "none"

\* lines 149-178 when nothing raises
CombineVerses(a, e, d) ==
    [k \in 1..Len(a.items) |-> VerseOf(a.items, e.items, d.items, k - 1)]

NoBody == [dict |-> TRUE, items |-> << >>]

\* items of the Arabic endpoint used in responses (surah 103)
ArabicItems ==
    { [has_key |-> TRUE,  verse_key |-> Key(103, 1), text_uthmani |-> <<1576, SHADDA, KASRA>>],
      [has_key |-> TRUE,  verse_key |-> Key(103, 2), text_uthmani |-> <<1576, 1614>>],
      [has_key |-> FALSE, verse_key |-> << >>,       text_uthmani |-> <<SHADDA, KASRA, KASRA>>],
      [has_key |-> TRUE,  verse_key |-> <<"2">>,     text_uthmani |-> <<1576>>],
      [has_key |-> TRUE,  verse_key |-> <<"1", "0", "3", ":", "x">>, text_uthmani |-> <<1576>>] }

\* items of a translation endpoint used in responses
TransItems == { [text |-> ExampleMarkup], [text |-> <<SP, "b", LT, "i", GT>>] }

OkResponses(items) ==
    {[outcome |-> "ok", body |-> [dict |-> TRUE, items |-> l]] : l \in SeqsUpTo(items, MaxVerses)}
        \cup {[outcome |-> "ok", body |-> [dict |-> FALSE, items |-> << >>]]}

FailResponses == {[outcome |-> f, body |-> NoBody] : f \in Failures}

\* what a single call of fetch_surah_verses may receive
FetchArabic == OkResponses(ArabicItems) \cup FailResponses
FetchTrans == OkResponses(TransItems) \cup FailResponses

\* the regular response of each endpoint for surah s in a full run
NominalArabic(s) ==
    [outcome |-> "ok",
     body |-> [dict |-> TRUE,
               items |-> <<[has_key |-> TRUE, verse_key |-> Key(s, 1),
                            text_uthmani |-> <<1576, SHADDA, KASRA>>]>>]]
NominalTrans ==
    [outcome |-> "ok", body |-> [dict |-> TRUE, items |-> <<[text |-> <<"a", LT, "b", GT>>]>>]]

\* the responses that differ from the regular one, in a full run
OddArabic(s) ==
    FailResponses \cup
    { [outcome |-> "ok", body |-> [dict |-> FALSE, items |-> << >>]],
      [outcome |-> "ok",
       body |-> [dict |-> TRUE,
                 items |-> <<[has_key |-> TRUE, verse_key |-> Decimal(s) \o <<":", "x">>,
                              text_uthmani |-> <<1576>>]>>]] }
OddTrans == FailResponses

RunArabic == {NominalArabic(surah_num)} \cup (IF budget > 0 THEN OddArabic(surah_num) ELSE {})
RunTrans == {NominalTrans} \cup (IF budget > 0 THEN OddTrans ELSE {})

Spend(r, nominal) == IF r = nominal THEN budget ELSE budget - 1

(***************************************************************************)
(* fetch_surah_verses, lines 120-190.  ret is where control continues      *)
(* when the function returns.                                              *)
(***************************************************************************)
Log(kind, r) == [surah |-> surah_num, kind |-> kind, ok |-> r.outcome = "ok"]

\* lines 122-126
ArabicCall(resps, nominal) ==
    /\ pc = "arabic"
    /\ \E r \in resps :
         /\ last_call' = Log("arabic", r)
         /\ budget' = Spend(r, nominal)
         /\ IF r.outcome = "ok"
            THEN /\ arabic_data' = r.body
                 /\ pc' = "english"
                 /\ exc' = exc
            ELSE /\ exc' = RaisedBy(r.outcome)
                 /\ pc' = "except"
                 /\ arabic_data' = arabic_data
    /\ UNCHANGED <<fixvars, cleanvars, killed_at, it, surah_num, juzAmma, total_verses,
                   english_data, indonesian_data, result, failed, file, file_opens>>

\* lines 129-136
EnglishCall(resps, nominal) ==
    /\ pc = "english"
    /\ \E r \in resps :
         /\ last_call' = Log("english", r)
         /\ budget' = Spend(r, nominal)
         /\ IF r.outcome = "ok"
            THEN /\ english_data' = r.body
                 /\ pc' = "indonesian"
                 /\ exc' = exc
            ELSE /\ exc' = RaisedBy(r.outcome)
                 /\ pc' = "except"
                 /\ english_data' = english_data
    /\ UNCHANGED <<fixvars, cleanvars, killed_at, it, surah_num, juzAmma, total_verses,
                   arabic_data, indonesian_data, result, failed, file, file_opens>>

\* lines 139-146
IndonesianCall(resps, nominal) ==
    /\ pc = "indonesian"
    /\ \E r \in resps :
         /\ last_call' = Log("indonesian", r)
         /\ budget' = Spend(r, nominal)
         /\ IF r.outcome = "ok"
            THEN /\ indonesian_data' = r.body
                 /\ pc' = "combine"
                 /\ exc' = exc
            ELSE /\ exc' = RaisedBy(r.outcome)
                 /\ pc' = "except"
                 /\ indonesian_data' = indonesian_data
    /\ UNCHANGED <<fixvars, cleanvars, killed_at, it, surah_num, juzAmma, total_verses,
                   arabic_data, english_data, result, failed, file, file_opens>>

\* lines 148-181
Combine(ret) ==
    /\ pc = "combine"
    /\ LET e == CombineExc(arabic_data, english_data, indonesian_data)
       IN  IF e = "none"
           THEN /\ result' = [verses |-> CombineVerses(arabic_data, english_data,
                                                        indonesian_data)]
                /\ pc' = ret
                /\ exc' = exc
           ELSE /\ exc' = e
                /\ pc' = "except"
                /\ result' = result
    /\ UNCHANGED <<fixvars, cleanvars, killed_at, it, surah_num, juzAmma, total_verses,
                   arabic_data, english_data, indonesian_data, last_call, failed, file,
                   file_opens, budget>>

\* as FetchExcept, but the fetch is tried again from its first call
FetchExceptRetry(ret) ==
    /\ pc = "except"
    /\ pc' = "arabic"
    /\ exc' = "none"
    /\ failed' = failed \cup {surah_num}
    /\ UNCHANGED <<fixvars, cleanvars, killed_at, it, surah_num, juzAmma, total_verses,
                   arabic_data, english_data, indonesian_data, result, last_call, file,
                   file_opens, budget>>

\* lines 183-190; an exception no clause names leaves the function and,
\* uncaught by generate_juz_amma_data and __main__, ends the process
FetchExcept(ret) ==
    /\ pc = "except"
    /\ IF Handled(exc)
       THEN /\ result' = [verses |-> << >>]
            /\ pc' = ret
            /\ exc' = "none"
       ELSE /\ pc' = "crashed"
            /\ UNCHANGED <<result, exc>>
    /\ failed' = failed \cup {surah_num}
    /\ UNCHANGED <<fixvars, cleanvars, killed_at, it, surah_num, juzAmma, total_verses,
                   arabic_data, english_data, indonesian_data, last_call, file,
                   file_opens, budget>>

(***************************************************************************)
(* generate_juz_amma_data, lines 193-241                                   *)
(***************************************************************************)
\* line 283 last_call the function; lines 200-205
GenerateEnter ==
    /\ pc = "main"
    /\ juzAmma' = << >>
    /\ total_verses' = 0
    /\ it' = RangeStart
    /\ pc' = "loop"
    /\ UNCHANGED <<fixvars, cleanvars, killed_at, surah_num, arabic_data, english_data,
                   indonesian_data, result, exc, last_call, failed, file, file_opens, budget>>

\* lines 207-212: the next surah; a number without metadata raises KeyError
LoopNext ==
    /\ pc = "loop"
    /\ it < RangeStop
    /\ surah_num' = it
    /\ it' = it + 1
    /\ pc' = IF it \in DOMAIN SURAH_METADATA THEN "arabic" ELSE "crashed"
    /\ UNCHANGED <<fixvars, cleanvars, killed_at, juzAmma, total_verses, arabic_data,
                   english_data, indonesian_data, result, exc, last_call, failed, file,
                   file_opens, budget>>

\* lines 213-234
SurahRecord(n, verses) ==
    LET metadata == SURAH_METADATA[n]
    IN  [number              |-> n,
         nameArabic          |-> metadata.name,
         nameTransliteration |-> metadata.transliteration,
         nameTranslation     |-> metadata.translation,
         ayahCount           |-> metadata.ayahs,
         revelation          |-> metadata.revelation,
         ayahs               |-> verses]

\* as AppendSurah, but a surah without verses is left out of the corpus
AppendSurahUnlessEmpty ==
    /\ pc = "append"
    /\ juzAmma' = IF result.verses = << >> THEN juzAmma
                  ELSE Append(juzAmma, SurahRecord(surah_num, result.verses))
    /\ total_verses' = total_verses + Len(result.verses)
    /\ pc' = "loop"
    /\ UNCHANGED <<fixvars, cleanvars, killed_at, it, surah_num, arabic_data, english_data,
                   indonesian_data, result, exc, last_call, failed, file, file_opens, budget>>

AppendSurah ==
    /\ pc = "append"
    /\ juzAmma' = Append(juzAmma, SurahRecord(surah_num, result.verses))
    /\ total_verses' = total_verses + Len(result.verses)
    /\ pc' = "loop"
    /\ UNCHANGED <<fixvars, cleanvars, killed_at, it, surah_num, arabic_data, english_data,
                   indonesian_data, result, exc, last_call, failed, file, file_opens, budget>>

\* as LoopExit, but leaving the loop whatever the iterator holds
LoopExitAnyTime ==
    /\ pc = "loop"
    /\ pc' = "save"
    /\ UNCHANGED <<fixvars, cleanvars, killed_at, it, surah_num, juzAmma, total_verses,
                   arabic_data, english_data, indonesian_data, result, exc, last_call,
                   failed, file, file_opens, budget>>

\* lines 236-241 and 283-287: the range is exhausted, the corpus is returned
\* and handed to save_json
LoopExit ==
    /\ pc = "loop"
    /\ ~(it < RangeStop)
    /\ pc' = "save"
    /\ UNCHANGED <<fixvars, cleanvars, killed_at, it, surah_num, juzAmma, total_verses,
                   arabic_data, english_data, indonesian_data, result, exc, last_call,
                   failed, file, file_opens, budget>>

(***************************************************************************)
(* save_json, lines 244-278                                                *)
(***************************************************************************)
\* line 255: open(output_file, 'w') creates or truncates the file, or raises
\* OSError, which line 275 catches
SaveOpen ==
    /\ pc = "save"
    /\ \/ /\ file' = [status |-> "opened", data |-> << >>]
          /\ file_opens' = file_opens + 1
          /\ pc' = "dump"
       \/ /\ pc' = "done"
          /\ UNCHANGED <<file, file_opens>>
    /\ UNCHANGED <<fixvars, cleanvars, killed_at, it, surah_num, juzAmma, total_verses,
                   arabic_data, english_data, indonesian_data, result, exc, last_call,
                   failed, budget>>

\* line 256: json.dump(data, f) writes the document, or raises, which line
\* 275 catches
SaveDump ==
    /\ pc = "dump"
    /\ \/ file' = [status |-> "written", data |-> juzAmma]
       \/ file' = file
    /\ pc' = "done"
    /\ UNCHANGED <<fixvars, cleanvars, killed_at, it, surah_num, juzAmma, total_verses,
                   arabic_data, english_data, indonesian_data, result, exc, last_call,
                   failed, file_opens, budget>>

\* the process is terminated from outside: nothing of it runs any more
Kill ==
    /\ pc \notin {"done", "crashed", "killed"}
    /\ pc' = "killed"
    /\ killed_at' = pc
    /\ UNCHANGED <<fixvars, cleanvars, it, surah_num, juzAmma, total_verses,
                   arabic_data, english_data, indonesian_data, result, exc, last_call,
                   failed, file, file_opens, budget>>

InitRunVars ==
    /\ killed_at = "none"
    /\ it = RangeStart
    /\ surah_num = RangeStart
    /\ juzAmma = << >>
    /\ total_verses = 0
    /\ arabic_data = NoBody
    /\ english_data = NoBody
    /\ indonesian_data = NoBody
    /\ result = [verses |-> << >>]
    /\ exc = "none"
    /\ last_call = [surah |-> 0, kind |-> "none", ok |-> TRUE]
    /\ failed = {}
    /\ file = [status |-> "absent", data |-> << >>]
    /\ file_opens = 0

(***************************************************************************)
(* Specifications                                                          *)
(***************************************************************************)
\* python3 fetch_quran_data.py: the whole run
Init ==
    /\ IdleFixVars /\ IdleCleanVars /\ InitRunVars
    /\ pc = "main"
    /\ budget = MaxAnomalies

Next ==
    \/ GenerateEnter
    \/ LoopNext
    \/ ArabicCall(RunArabic, NominalArabic(surah_num))
    \/ EnglishCall(RunTrans, NominalTrans)
    \/ IndonesianCall(RunTrans, NominalTrans)
    \/ Combine("append")
    \/ FetchExcept("append")
    \/ AppendSurah
    \/ LoopExit
    \/ SaveOpen
    \/ SaveDump
    \/ Kill

Spec == Init /\ [][Next]_vars

\* one call fetch_surah_verses(103) against any responses
InitFetch ==
    /\ IdleFixVars /\ IdleCleanVars /\ InitRunVars
    /\ pc = "arabic"
    /\ budget = 3

NextFetch ==
    \/ ArabicCall(FetchArabic, NominalArabic(surah_num))
    \/ EnglishCall(FetchTrans, NominalTrans)
    \/ IndonesianCall(FetchTrans, NominalTrans)
    \/ Combine("returned")
    \/ FetchExcept("returned")

SpecFetch == InitFetch /\ [][NextFetch]_vars

\* one call fix_diacritic_order(text)
InitFix == InitFixVars /\ IdleCleanVars /\ InitRunVars /\ pc = "idle" /\ budget = 0

NextFix == FixEnter \/ FixSwap \/ FixAdvance \/ FixReturn

SpecFix == InitFix /\ [][NextFix]_vars

\* one call clean_html_tags(html_in)
InitClean == IdleFixVars /\ InitCleanVars /\ InitRunVars /\ pc = "idle" /\ budget = 0

NextClean == CleanEnter \/ CleanFootnotes \/ CleanTags \/ CleanStrip

SpecClean == InitClean /\ [][NextClean]_vars

(***************************************************************************)
(* Properties of fix_diacritic_order (under SpecFix)                       *)
(***************************************************************************)
\* the input text holds SHADDA at 0-based index k and KASRA at k + 1
InputPairAt(k) ==
    /\ k >= 0 /\ k + 1 < Len(text)
    /\ text[k + 1] = 1617 /\ text[k + 2] = 1616

\* C1: the result has the length of the input; wherever the input holds
\* SHADDA, KASRA the result holds KASRA, SHADDA at the same two indices; every
\* index outside such an occurrence holds the character it held in the input
\* (so the empty input gives the empty result).
C1_SwapsExactlyInputPairs ==
    fpc = "done" =>
        /\ Len(chars) = Len(text)
        /\ \A k \in 0..(Len(text) - 1) :
              /\ InputPairAt(k) => chars[k + 1] = 1616 /\ chars[k + 2] = 1617
              /\ ~InputPairAt(k) /\ ~InputPairAt(k - 1) => chars[k + 1] = text[k + 1]

\* a call that swapped a pair and left other characters in place has returned
C1_Witness ==
    /\ fpc = "done"
    /\ Len(text) >= 3
    /\ \E k \in 0..(Len(text) - 1) : InputPairAt(k)
    /\ \E k \in 0..(Len(text) - 1) : ~InputPairAt(k) /\ ~InputPairAt(k - 1)
    /\ chars # text

\* C10: one pass from left to right: the cursor moves on by two after a swap
\* and by one otherwise; only pairs of the input are swapped, so a pair that a
\* swap of the same call brings about is never matched; SHADDA, KASRA, KASRA
\* gives KASRA, SHADDA, KASRA.
C10_SinglePass ==
    /\ \A j \in 1..Len(steps) :
          LET cur == steps[j]
              nxt == IF j < Len(steps) THEN steps[j + 1] ELSE i
          IN  nxt = IF cur \in swaps THEN cur + 2 ELSE cur + 1
    /\ \A k \in swaps : InputPairAt(k)
    /\ fpc = "done" /\ text = <<1617, 1616, 1616>> => chars = <<1616, 1617, 1616>>

\* the call on SHADDA, KASRA, KASRA has returned: the swap at 0 left SHADDA,
\* KASRA at indices 1 and 2, and the cursor went past them
C10_Witness ==
    /\ fpc = "done"
    /\ text = <<1617, 1616, 1616>>
    /\ swaps = {0}
    /\ chars[2] = 1617 /\ chars[3] = 1616

(***************************************************************************)
(* Properties of clean_html_tags (under SpecClean)                         *)
(***************************************************************************)
Count(s, tok) == Cardinality({k \in 1..Len(s) : s[k] = tok})

\* a footnote span of s: "<sup foot_note=" at p, the ">" that ends the opening
\* tag at q, and the first "</sup>" after it at r; its body lies between them
IsFootnoteSpan(s, p, q, r) ==
    /\ p + 1 <= Len(s) /\ s[p] = "<" /\ s[p + 1] = "sup foot_note="
    /\ q \in (p + 2)..Len(s) /\ s[q] = ">"
    /\ \A k \in (p + 2)..(q - 1) : s[k] # ">"
    /\ r \in (q + 1)..(Len(s) - 2)
    /\ s[r] = "<" /\ s[r + 1] = "/sup" /\ s[r + 2] = ">"
    /\ \A k \in (q + 1)..(r - 1) : ~(s[k] = "<" /\ s[k + 1] = "/sup" /\ s[k + 2] = ">")

InFootnoteBody(s, k) ==
    \E p \in 1..Len(s), q \in 1..Len(s), r \in 1..Len(s) :
        IsFootnoteSpan(s, p, q, r) /\ q < k /\ k < r

HasFootnoteSpan(s) ==
    \E p \in 1..Len(s), q \in 1..Len(s), r \in 1..Len(s) : IsFootnoteSpan(s, p, q, r)

\* C5: every footnote span is removed as a whole, body included: the words
\* "note" of the result are no more than those the input holds outside the
\* bodies of its footnote spans, and the example gives "helloworld".
C5_FootnoteBodyRemoved ==
    cpc = "done" =>
        /\ HasFootnoteSpan(html_in) =>
              Count(html, "note") <=
                  Cardinality({k \in 1..Len(html_in) :
                                  html_in[k] = "note" /\ ~InFootnoteBody(html_in, k)})
        /\ html_in = ExampleMarkup => html = <<"hello", "world">>

\* s holds a tag: "<", one or more characters other than ">", and ">"
HasTag(s) ==
    \E p \in 1..Len(s), q \in 1..Len(s) :
        /\ s[p] = "<" /\ s[q] = ">" /\ q >= p + 2
        /\ \A k \in (p + 1)..(q - 1) : s[k] # ">"

\* index k of s lies inside a tag: a "<" before it with no ">" in between,
\* and a ">" after it
InsideTag(s, k) ==
    /\ \E p \in 1..(k - 1) : s[p] = "<" /\ \A m \in (p + 1)..(k - 1) : s[m] # ">"
    /\ \E q \in (k + 1)..Len(s) : s[q] = ">"

RECURSIVE IsSubsequence(_, _)
IsSubsequence(a, b) ==
    IF a = << >> THEN TRUE
    ELSE IF b = << >> THEN FALSE
    ELSE IF Head(a) = Head(b) THEN IsSubsequence(Tail(a), Tail(b))
    ELSE IsSubsequence(a, Tail(b))

\* t is s without its leading and trailing white space
IsTrimOf(t, s) ==
    \E a \in 0..Len(s), b \in 0..Len(s) :
        /\ a + b <= Len(s)
        /\ t = SubSeq(s, a + 1, Len(s) - b)
        /\ \A k \in 1..a : s[k] \in {" ", "\n"}
        /\ \A k \in (Len(s) - b + 1)..Len(s) : s[k] \in {" ", "\n"}
        /\ t # << >> => t[1] \notin {" ", "\n"} /\ t[Len(t)] \notin {" ", "\n"}

\* C6: the result holds no tag and neither starts nor ends with white space;
\* what is left of the input is in its order, and when the input has no
\* footnote markup every word outside a tag is kept; an input without a tag
\* is returned trimmed and otherwise unchanged.
C6_NoTagRemains ==
    cpc = "done" =>
        /\ ~HasTag(html)
        /\ html # << >> => html[1] \notin {" ", "\n"} /\ html[Len(html)] \notin {" ", "\n"}
        /\ IsSubsequence(html, html_in)
        /\ Count(html_in, "sup foot_note=") = 0 =>
              Count(html, "note") =
                  Cardinality({k \in 1..Len(html_in) :
                                  html_in[k] = "note" /\ ~InsideTag(html_in, k)})
        /\ ~HasTag(html_in) => IsTrimOf(html, html_in)

\* a text with white space at its start, a tag and a word was cleaned
C6_Witness ==
    /\ cpc = "done"
    /\ html_in = <<" ", "<", "b", ">", "note", "\n">>
    /\ html = <<"note">>

(***************************************************************************)
(* Properties of fetch_surah_verses (under SpecFetch)                      *)
(***************************************************************************)
\* the key ends in ":" followed by digits only
WellFormedKey(key) ==
    \E c \in 1..(Len(key) - 1) :
        /\ key[c] = ":"
        /\ \A k \in (c + 1)..Len(key) :
              key[k] \in {"0", "1", "2", "3", "4", "5", "6", "7", "8", "9"}

\* a key that holds ":" but does not end in ":" and digits
MalformedKey(key) == (\E c \in 1..Len(key) : key[c] = ":") /\ ~WellFormedKey(key)

\* the three calls were made and succeeded
AllCallsOk == last_call.kind = "indonesian" /\ last_call.ok

\* lines 148-178 cannot work on the bodies received
ProcessingFails ==
    \/ ~arabic_data.dict \/ ~english_data.dict \/ ~indonesian_data.dict
    \/ \E k \in 1..Len(arabic_data.items) :
          arabic_data.items[k].has_key /\ MalformedKey(arabic_data.items[k].verse_key)

\* C2: when one of the three calls fails, or the processing of the responses
\* raises, the function returns the empty list, never a partial one, and no
\* exception leaves it.
C2_FailureGivesEmpty ==
    /\ pc # "crashed"
    /\ pc = "returned" /\ (~AllCallsOk \/ ProcessingFails) => result.verses = << >>

\* the Arabic call gave verses, the English call failed, the function returned
C2_Witness ==
    /\ pc = "returned"
    /\ last_call.kind = "english" /\ ~last_call.ok
    /\ Len(arabic_data.items) > 0
    /\ result.verses = << >>

\* C4: the verse number of the item at position k is the integer after the
\* last ":" of its key; an item whose key is absent or malformed gets its
\* 1-based position, and the verses of the surah are returned all the same.
C4_VerseNumberFallback ==
    pc = "returned" /\ AllCallsOk
      /\ arabic_data.dict /\ english_data.dict /\ indonesian_data.dict =>
        /\ Len(result.verses) = Len(arabic_data.items)
        /\ \A k \in 1..Len(result.verses) :
              LET item == arabic_data.items[k]
              IN  result.verses[k].number =
                     IF item.has_key /\ WellFormedKey(item.verse_key)
                     THEN IntOf(LastComponent(item.verse_key))
                     ELSE k

\* C7: a successful fetch returns one record per Arabic item, in order; record
\* k holds the normalized text of Arabic item k, and the stripped texts of
\* entry k of the English and of the Indonesian list, or the empty string
\* where a list has no entry k; entries beyond the Arabic list are ignored.
C7_PositionalPairing ==
    pc = "returned" /\ surah_num \notin failed =>
        /\ AllCallsOk
        /\ Len(result.verses) = Len(arabic_data.items)
        /\ \A k \in 1..Len(result.verses) :
              LET v  == result.verses[k]
                  a  == arabic_data.items[k].text_uthmani
                  en == english_data.items
                  id == indonesian_data.items
              IN  /\ v.textArabic = fix_diacritic_order(a)
                  /\ a = <<1576, 1617, 1616>> => v.textArabic = <<1576, 1616, 1617>>
                  /\ v.translationEnglish =
                        IF k <= Len(en) THEN clean_html_tags(en[k].text) ELSE << >>
                  /\ v.translationIndonesian =
                        IF k <= Len(id) THEN clean_html_tags(id[k].text) ELSE << >>
                  /\ k <= Len(en) /\ en[k].text = ExampleMarkup =>
                        v.translationEnglish = <<"hello", "world">>

\* one Arabic item whose key names verse 2, two English entries, no Indonesian
\* entry: the record holds the first English text and no Indonesian text
C7_Witness ==
    /\ pc = "returned" /\ surah_num \notin failed
    /\ Len(arabic_data.items) = 1
    /\ arabic_data.items[1].verse_key = <<"1", "0", "3", ":", "2">>
    /\ Len(english_data.items) = 2
    /\ english_data.items[1] # english_data.items[2]
    /\ indonesian_data.items = << >>
    /\ Len(result.verses) = 1
    /\ result.verses[1].number = 2
    /\ result.verses[1].translationIndonesian = << >>

(***************************************************************************)
(* Properties of the whole run (under Spec)                                *)
(***************************************************************************)
\* generate_juz_amma_data has returned its corpus
Generated == pc \in {"save", "dump", "done"}

\* C3: whatever fetches fail, generate_juz_amma_data returns 37 records, for
\* the surahs 78..114 in this order; the record of a surah whose fetch failed
\* holds its metadata and no verses, and the surahs after it hold the verses
\* fetched for them.
C3_AllSurahsPresent ==
    /\ pc # "crashed"
    /\ Generated =>
          /\ Len(juzAmma) = 37
          /\ \A k \in 1..Len(juzAmma) :
                LET n == 77 + k
                    r == juzAmma[k]
                IN  /\ r.number = n
                    /\ r.nameArabic = SURAH_METADATA[n].name
                    /\ r.nameTransliteration = SURAH_METADATA[n].transliteration
                    /\ r.nameTranslation = SURAH_METADATA[n].translation
                    /\ r.ayahCount = SURAH_METADATA[n].ayahs
                    /\ r.revelation = SURAH_METADATA[n].revelation
                    /\ n \in failed => r.ayahs = << >>
                    /\ n \notin failed => r.ayahs # << >>

\* the run is over, a surah before the last one failed and the one after it
\* has its verses
C3_Witness ==
    /\ pc = "done"
    /\ \E n \in failed :
          /\ n < 114
          /\ juzAmma[n - 77].ayahs = << >>
          /\ juzAmma[n - 76].ayahs # << >>

LoopPlaces == {"main", "loop", "arabic", "english", "indonesian", "combine", "except", "append"}

\* C8: the output file is opened for writing at most once, and only when the
\* corpus holds the 37 surahs 78..114; what is written is that corpus; a run
\* terminated anywhere in the fetch loop leaves the file untouched.
C8_WriteOnceAtEnd ==
    /\ file_opens <= 1
    /\ (file.status # "absent" \/ file_opens > 0) =>
          /\ Len(juzAmma) = 37
          /\ \A k \in 1..Len(juzAmma) : juzAmma[k].number = 77 + k
          /\ pc \in {"dump", "done", "killed"}
    /\ file.status = "written" => file.data = juzAmma
    /\ pc \in LoopPlaces \/ (pc = "killed" /\ killed_at \in LoopPlaces) =>
          file.status = "absent" /\ file_opens = 0

\* the file holds the corpus of a run in which a fetch failed
C8_Witness ==
    /\ pc = "done"
    /\ file.status = "written"
    /\ Len(file.data) = 37
    /\ failed # {}

Rank(kind) ==
    CASE kind = "none" -> 0 [] kind = "arabic" -> 1 [] kind = "english" -> 2
      [] kind = "indonesian" -> 3

\* C9: every call is issued by the statement the thread is at, for the surah
\* of the loop; calls come in ascending order of surah and, within a surah,
\* in the order Arabic, English, Indonesian, none of them twice; a translation
\* call follows the successful call before it for the same surah; the Arabic
\* call for a surah is issued when the records of all surahs before it are in
\* the corpus.
C9_SequentialCalls ==
    [][ last_call' # last_call =>
          /\ last_call'.kind = pc /\ last_call'.surah = surah_num
          /\ last_call'.surah \in 78..114
          /\ \/ last_call'.surah > last_call.surah
             \/ /\ last_call'.surah = last_call.surah
                /\ Rank(last_call'.kind) > Rank(last_call.kind)
          /\ last_call'.kind # "arabic" =>
                /\ last_call.surah = last_call'.surah
                /\ Rank(last_call.kind) = Rank(last_call'.kind) - 1
                /\ last_call.ok
          /\ last_call'.kind = "arabic" =>
                /\ last_call.surah = IF last_call'.surah = 78 THEN 0
                                     ELSE last_call'.surah - 1
                /\ Len(juzAmma) = last_call'.surah - 78
                /\ \A k \in 1..Len(juzAmma) : juzAmma[k].number = 77 + k
      ]_vars

\* the English call for surah 79 was issued and failed, after the record of
\* surah 78 was appended
C9_Witness ==
    /\ last_call = [surah |-> 79, kind |-> "english", ok |-> FALSE]
    /\ Len(juzAmma) = 1

(***************************************************************************)
(* Applying fix_diacritic_order to its own result (under SpecFix)          *)
(***************************************************************************)
\* the result holds SHADDA, KASRA at the 0-based indices k, k + 1, and one of
\* the two characters was put there by a swap on the other side of the
\* boundary: k is the second index of a swap, or k + 1 the first index of one
NewPairAt(k) ==
    /\ k >= 0 /\ k + 1 < Len(chars)
    /\ chars[k + 1] = 1617 /\ chars[k + 2] = 1616
    /\ (k - 1) \in swaps \/ (k + 1) \in swaps

NewPairFormed == \E k \in 0..(Len(chars) - 1) : NewPairAt(k)

\* C11: when the call left a new SHADDA, KASRA pair across a swap boundary, a
\* second application changes the result; when it left none, a second
\* application changes nothing.
C11_IdempotentUnlessNewPair ==
    fpc = "done" =>
        /\ chars = fix_diacritic_order(text)
        /\ NewPairFormed =>
              fix_diacritic_order(fix_diacritic_order(text)) # fix_diacritic_order(text)
        /\ ~NewPairFormed =>
              fix_diacritic_order(fix_diacritic_order(text)) = fix_diacritic_order(text)

\* SHADDA, KASRA, KASRA gave KASRA, SHADDA, KASRA: the swap at 0 left a new pair
\* at 1, 2, and the second application gives KASRA, KASRA, SHADDA
C11_Witness ==
    /\ fpc = "done"
    /\ text = <<1617, 1616, 1616>>
    /\ NewPairAt(1)
    /\ fix_diacritic_order(chars) = <<1616, 1616, 1617>>
    /\ fix_diacritic_order(chars) # chars

====
